---- MODULE Spec2Model ----
(***************************************************************************)
(* A model of three pieces of super_gradients:                             *)
(*   - the inference pipeline (training/pipelines/pipelines.py):           *)
(*     eval_mode, Pipeline._run, DetectionPipeline._decode_model_output;   *)
(*   - the knowledge distillation module (kd_modules/kd_module.py);        *)
(*   - the NDFLHeads detection head (deci_yolo/dfl_heads.py): anchor       *)
(*     caching and the DFL decoding of forward_eval.                       *)
(* Each piece has its own specification over the shared variable list; a   *)
(* specification leaves the variables of the other pieces untouched.       *)
(***************************************************************************)
EXTENDS Integers, Sequences, FiniteSets, TLC

VARIABLES
    \* ---- Pipeline (pipelines.py) ----
    device,                 \* self.device
    modelDevice,            \* the device the model's parameters live on
    training,               \* self.model.training
    gradEnabled,            \* torch.is_grad_enabled() of the calling thread
    pc,                     \* position of the caller inside Pipeline._run
    images,                 \* images = load_images(images)
    preprocessed_images,    \* list built by the preprocess loop
    processing_metadatas,   \* list built by the preprocess loop
    starting_mode,          \* eval_mode's local _starting_mode
    prev_grad,              \* the grad mode torch.no_grad saved on entry
    torch_predictions,      \* what _decode_model_output returned
    predictions,            \* list built by the postprocess loop
    log,                    \* stage events of the current call, in order
    entry,                  \* the model's mode and device, the grad mode and the images
                            \* when _run was called
    fwd,                    \* what the model forward call saw
    callbackOut,            \* what the post prediction callback returned
    \* ---- KDModule (kd_module.py) ----
    kdPhase,                \* "args" before KDModule.__init__, "built" after
    arch_rte,               \* arch_params.run_teacher_on_eval, or "missing"
    run_teacher_on_eval,    \* self.run_teacher_on_eval
    studentTraining,        \* self.student.training
    teacherTraining,        \* self.teacher.training
    teacherRequiresGrad,    \* requires_grad of each parameter of the teacher
    kdCalls,                \* the train/eval calls made on the KDModule, in order
    \* ---- NDFLHeads (dfl_heads.py) ----
    eval_size,              \* self.eval_size: <<rows, cols>>, or None
    anchor_points,          \* self.anchor_points (no such attribute: <<>>)
    stride_tensor,          \* self.stride_tensor (no such attribute: <<>>)
    nextInput,              \* the input of forward_eval: the size of the image the
                            \* feature maps are those of, and the heads' output on them
    lastForward             \* the last forward_eval call: its inputs and results

pipeVars == <<device, modelDevice, training, gradEnabled, pc, images,
              preprocessed_images, processing_metadatas, starting_mode,
              prev_grad, torch_predictions, predictions, log, entry, fwd,
              callbackOut>>

kdVars == <<kdPhase, arch_rte, run_teacher_on_eval, studentTraining, teacherTraining,
            teacherRequiresGrad, kdCalls>>

headVars == <<eval_size, anchor_points, stride_tensor, nextInput, lastForward>>

vars == <<pipeVars, kdVars, headVars>>

----------------------------------------------------------------------------
\* Bounds of the model.
MaxImages == 2          \* most images in one call
MaxRows == 2            \* most detections the callback reports for an image
MaxCalls == 3           \* most train/eval calls made on a KDModule
NumTeacherParams == 2   \* parameters of the teacher
MaxCells == 2           \* image sides are 32, 64, ... 32 * MaxCells pixels
RegMax == 2             \* reg_max of the head: reg_max + 1 bins per box side

Devices == {"cpu", "cuda"}
Pixels == {"a", "b"}    \* contents of a loaded image

RECURSIVE SeqsUpTo(_, _)
\* All sequences over S of length at most n.
SeqsUpTo(S, n) ==
    IF n = 0 THEN {<<>>}
    ELSE LET shorter == SeqsUpTo(S, n - 1)
         IN  shorter \cup {Append(s, x) : s \in {t \in shorter : Len(t) = n - 1}, x \in S}

----------------------------------------------------------------------------
\* Values.
NoneValue == [kind |-> "None", rows |-> 0, cols |-> 0]
Tensor(rows, cols) == [kind |-> "Tensor", rows |-> rows, cols |-> cols]
NoCall == [called |-> FALSE, modelDevice |-> "-", inputDevice |-> "-",
           training |-> FALSE, grad |-> FALSE, batch |-> <<>>]
NoEntry == [training |-> FALSE, grad |-> FALSE, modelDevice |-> "-", loaded |-> <<>>]

\* image_processor.preprocess_image(image): the encoded image, its metadata,
\* and what the array it was handed holds afterwards (processings may work
\* in place).
preprocess_image(image) ==
    [preprocessed_image |-> <<"encoded", image>>,
     processing_metadata |-> <<"metadata", image>>,
     image_after |-> "overwritten"]

\* image_processor.postprocess_predictions(predictions, metadata)
postprocess_predictions(prediction, metadata) ==
    [prediction |-> prediction, metadata |-> metadata]

\* What a DetectionPostPredictionCallback may return: one entry per item it
\* decoded, None for an item without detection, else an (n, 6) tensor.
CallbackEntries == {NoneValue} \cup {Tensor(n, 6) : n \in 0..MaxRows}
CallbackOutputs == SeqsUpTo(CallbackEntries, MaxImages + 1)

\* DetectionPipeline._decode_model_output, after the callback returned
\* decoded_predictions.
\* A decoding that drops the None entries instead of replacing them.
decode_model_output_dropNone(decoded_predictions) ==
    LET RECURSIVE Pick(_)
        Pick(i) == IF i > Len(decoded_predictions) THEN <<>>
                   ELSE IF decoded_predictions[i] # NoneValue
                        THEN <<decoded_predictions[i]>> \o Pick(i + 1)
                        ELSE Pick(i + 1)
    IN  Pick(1)

decode_model_output(decoded_predictions) ==
    [i \in 1..Len(decoded_predictions) |->
        IF decoded_predictions[i] # NoneValue
        THEN decoded_predictions[i]
        ELSE Tensor(0, 6)]

----------------------------------------------------------------------------
\* Pipeline: helpers of _run and eval_mode.

\* A model that stays where it is.
model_to_noMove(current, target) == current
\* self.model.to(self.device): the device the model is on afterwards.
model_to(current, target) == target

\* self.image_processor.preprocess_image(image=image.copy()): the processor
\* works on a copy, so the list of loaded images keeps its arrays.
preprocess_call(imgs, i) ==
    LET r == preprocess_image(imgs[i])
    IN  [images |-> imgs,
         preprocessed_image |-> r.preprocessed_image,
         processing_metadata |-> r.processing_metadata]

\* A loop that may be left before its end.
preprocess_loop_done_early == TRUE
\* The for loop over images has run to its end.
preprocess_loop_done == Len(preprocessed_images) = Len(images)

Min(a, b) == IF a <= b THEN a ELSE b

\* A pairing that takes the second list from its end.
zip_shifted(xs, ys) ==
    [i \in 1..Min(Len(xs), Len(ys)) |-> <<xs[i], ys[Len(ys) + 1 - i]>>]
\* zip(torch_predictions, processing_metadatas): pairs up to the shorter list.
zip(xs, ys) == [i \in 1..Min(Len(xs), Len(ys)) |-> <<xs[i], ys[i]>>]

\* A restore that always puts the model in training mode.
eval_mode_restore_train(start) == TRUE
\* model.train(mode=_starting_mode): the training flag afterwards.
eval_mode_restore(start) == start

\* torch.no_grad().__exit__: the grad mode afterwards is the one saved on entry.
no_grad_exit(prev) == prev

----------------------------------------------------------------------------
\* Pipeline: the state after Pipeline.__init__ (the model was moved to the
\* device), with no call of _run under way.
InitPipeline ==
    /\ device \in Devices
    /\ modelDevice = device
    /\ training \in BOOLEAN
    /\ gradEnabled \in BOOLEAN
    /\ pc = "idle"
    /\ images = <<>>
    /\ preprocessed_images = <<>>
    /\ processing_metadatas = <<>>
    /\ starting_mode = FALSE
    /\ prev_grad = FALSE
    /\ torch_predictions = <<>>
    /\ predictions = <<>>
    /\ log = <<>>
    /\ entry = NoEntry
    /\ fwd = NoCall
    /\ callbackOut = <<>>

\* Between calls the owner of the model moves it to another device.
MoveModel ==
    /\ UNCHANGED <<kdVars, headVars>>
    /\ pc = "idle"
    /\ \E d \in Devices \ {modelDevice} : modelDevice' = d
    /\ UNCHANGED <<device, training, gradEnabled, pc, images, preprocessed_images,
                   processing_metadatas, starting_mode, prev_grad, torch_predictions,
                   predictions, log, entry, fwd, callbackOut>>

\* Between calls the owner of the model calls model.train() or model.eval().
SetTraining ==
    /\ UNCHANGED <<kdVars, headVars>>
    /\ pc = "idle"
    /\ training' = ~training
    /\ UNCHANGED <<device, modelDevice, gradEnabled, pc, images, preprocessed_images,
                   processing_metadatas, starting_mode, prev_grad, torch_predictions,
                   predictions, log, entry, fwd, callbackOut>>

\* Between calls the caller enters or leaves a torch.no_grad() block of its own.
SetGrad ==
    /\ UNCHANGED <<kdVars, headVars>>
    /\ pc = "idle"
    /\ gradEnabled' = ~gradEnabled
    /\ UNCHANGED <<device, modelDevice, training, pc, images, preprocessed_images,
                   processing_metadatas, starting_mode, prev_grad, torch_predictions,
                   predictions, log, entry, fwd, callbackOut>>

\* _run, lines 67-72: move the model, load the images, start the lists.
RunStart ==
    /\ UNCHANGED <<kdVars, headVars>>
    /\ pc = "idle"
    /\ \E imgs \in SeqsUpTo(Pixels, MaxImages) :
          /\ images' = imgs
          /\ entry' = [training |-> training, grad |-> gradEnabled,
                       modelDevice |-> modelDevice, loaded |-> imgs]
    /\ modelDevice' = model_to(modelDevice, device)
    /\ preprocessed_images' = <<>>
    /\ processing_metadatas' = <<>>
    /\ torch_predictions' = <<>>
    /\ predictions' = <<>>
    /\ callbackOut' = <<>>
    /\ fwd' = NoCall
    /\ log' = <<"load">>
    /\ pc' = "preprocess"
    /\ UNCHANGED <<device, training, gradEnabled, starting_mode, prev_grad>>

\* _run, lines 73-76: one turn of the preprocess loop.
PreprocessImage ==
    /\ UNCHANGED <<kdVars, headVars>>
    /\ pc = "preprocess"
    /\ Len(preprocessed_images) < Len(images)
    /\ LET r == preprocess_call(images, Len(preprocessed_images) + 1)
       IN  /\ images' = r.images
           /\ preprocessed_images' = Append(preprocessed_images, r.preprocessed_image)
           /\ processing_metadatas' = Append(processing_metadatas, r.processing_metadata)
    /\ log' = Append(log, "preprocess")
    /\ UNCHANGED <<device, modelDevice, training, gradEnabled, pc, starting_mode,
                   prev_grad, torch_predictions, predictions, entry, fwd, callbackOut>>

\* eval_mode, lines 21-23, entered at _run line 79: remember the mode, put
\* the model in eval mode, enter torch.no_grad().
EnterEvalMode ==
    /\ UNCHANGED <<kdVars, headVars>>
    /\ pc = "preprocess"
    /\ preprocess_loop_done
    /\ starting_mode' = training
    /\ training' = FALSE
    /\ prev_grad' = gradEnabled
    /\ gradEnabled' = FALSE
    /\ pc' = "forward"
    /\ UNCHANGED <<device, modelDevice, images, preprocessed_images, processing_metadatas,
                   torch_predictions, predictions, log, entry, fwd, callbackOut>>

\* _run, lines 80-81: the batch goes to self.device and the model is called.
Forward ==
    /\ UNCHANGED <<kdVars, headVars>>
    /\ pc = "forward"
    /\ fwd' = [called |-> TRUE, modelDevice |-> modelDevice, inputDevice |-> device,
               training |-> training, grad |-> gradEnabled, batch |-> preprocessed_images]
    /\ log' = Append(log, "forward")
    /\ pc' = "decode"
    /\ UNCHANGED <<device, modelDevice, training, gradEnabled, images, preprocessed_images,
                   processing_metadatas, starting_mode, prev_grad, torch_predictions,
                   predictions, entry, callbackOut>>

\* An exception leaves the body of eval_mode: it is thrown into the generator
\* at the yield, torch.no_grad() exits, and the statement after the with
\* block (line 25) is not reached.
ExceptionExit ==
    /\ gradEnabled' = no_grad_exit(prev_grad)
    /\ pc' = "raised"
    /\ UNCHANGED <<device, modelDevice, training, images, preprocessed_images,
                   processing_metadatas, starting_mode, prev_grad, torch_predictions,
                   predictions, entry, callbackOut>>

\* _run, line 81: the model forward raises.
ForwardRaises ==
    /\ UNCHANGED <<kdVars, headVars>>
    /\ pc = "forward"
    /\ fwd' = [called |-> TRUE, modelDevice |-> modelDevice, inputDevice |-> device,
               training |-> training, grad |-> gradEnabled, batch |-> preprocessed_images]
    /\ log' = Append(log, "forward")
    /\ ExceptionExit

\* _run, line 82, DetectionPipeline._decode_model_output: the callback
\* returns and its None entries are replaced.
DecodeModelOutput ==
    /\ UNCHANGED <<kdVars, headVars>>
    /\ pc = "decode"
    /\ \E out \in CallbackOutputs :
          /\ callbackOut' = out
          /\ torch_predictions' = decode_model_output(out)
    /\ log' = Append(log, "decode")
    /\ pc' = "exit_eval"
    /\ UNCHANGED <<device, modelDevice, training, gradEnabled, images, preprocessed_images,
                   processing_metadatas, starting_mode, prev_grad, predictions, entry, fwd>>

\* _run, line 82: the post prediction callback raises.
DecodeRaises ==
    /\ UNCHANGED <<kdVars, headVars>>
    /\ pc = "decode"
    /\ log' = Append(log, "decode")
    /\ UNCHANGED fwd
    /\ ExceptionExit

\* eval_mode, lines 23-25, when the body ended normally: torch.no_grad()
\* exits and the model gets its starting mode back.
ExitEvalMode ==
    /\ UNCHANGED <<kdVars, headVars>>
    /\ pc = "exit_eval"
    /\ gradEnabled' = no_grad_exit(prev_grad)
    /\ training' = eval_mode_restore(starting_mode)
    /\ pc' = "postprocess"
    /\ UNCHANGED <<device, modelDevice, images, preprocessed_images, processing_metadatas,
                   starting_mode, prev_grad, torch_predictions, predictions, log, entry,
                   fwd, callbackOut>>

\* _run, lines 86-89: one turn of the postprocess loop.
PostprocessPrediction ==
    /\ UNCHANGED <<kdVars, headVars>>
    /\ pc = "postprocess"
    /\ LET pairs == zip(torch_predictions, processing_metadatas)
           i == Len(predictions) + 1
       IN  /\ i <= Len(pairs)
           /\ predictions' =
                 Append(predictions, postprocess_predictions(pairs[i][1], pairs[i][2]))
    /\ log' = Append(log, "postprocess")
    /\ UNCHANGED <<device, modelDevice, training, gradEnabled, pc, images,
                   preprocessed_images, processing_metadatas, starting_mode, prev_grad,
                   torch_predictions, entry, fwd, callbackOut>>

\* _run, line 91: return images, predictions.
Return ==
    /\ UNCHANGED <<kdVars, headVars>>
    /\ pc = "postprocess"
    /\ Len(predictions) = Len(zip(torch_predictions, processing_metadatas))
    /\ pc' = "returned"
    /\ UNCHANGED <<device, modelDevice, training, gradEnabled, images, preprocessed_images,
                   processing_metadatas, starting_mode, prev_grad, torch_predictions,
                   predictions, log, entry, fwd, callbackOut>>

\* The caller has the result (or the exception) and the pipeline is idle again.
Reset ==
    /\ UNCHANGED <<kdVars, headVars>>
    /\ pc \in {"returned", "raised"}
    /\ pc' = "idle"
    /\ images' = <<>>
    /\ preprocessed_images' = <<>>
    /\ processing_metadatas' = <<>>
    /\ torch_predictions' = <<>>
    /\ predictions' = <<>>
    /\ callbackOut' = <<>>
    /\ log' = <<>>
    /\ entry' = NoEntry
    /\ fwd' = NoCall
    /\ starting_mode' = FALSE
    /\ prev_grad' = FALSE
    /\ UNCHANGED <<device, modelDevice, training, gradEnabled>>

\* The variables of the pipeline, parked while another piece is checked.
PipelineParked ==
    /\ device = "cpu"
    /\ modelDevice = "cpu"
    /\ training = FALSE
    /\ gradEnabled = TRUE
    /\ pc = "idle"
    /\ images = <<>>
    /\ preprocessed_images = <<>>
    /\ processing_metadatas = <<>>
    /\ starting_mode = FALSE
    /\ prev_grad = FALSE
    /\ torch_predictions = <<>>
    /\ predictions = <<>>
    /\ log = <<>>
    /\ entry = NoEntry
    /\ fwd = NoCall
    /\ callbackOut = <<>>

----------------------------------------------------------------------------
\* KDModule.

\* A train() that does not look at run_teacher_on_eval.
train_teacher_always(mode) == mode
\* KDModule.train, lines 38-39: the teacher's training flag afterwards.
train_teacher(mode) == IF ~run_teacher_on_eval THEN mode ELSE teacherTraining

\* get_param(arch_params, "run_teacher_on_eval", False)
get_param(value, default) == IF value = "missing" THEN default ELSE value = "True"

\* Before construction: a student and a teacher in any mode, the teacher's
\* parameters trainable or not, and the arch_params of the module.
InitKD ==
    /\ kdPhase = "args"
    /\ arch_rte \in {"missing", "True", "False"}
    /\ run_teacher_on_eval = FALSE
    /\ studentTraining \in BOOLEAN
    /\ teacherTraining \in BOOLEAN
    /\ teacherRequiresGrad \in [1..NumTeacherParams -> BOOLEAN]
    /\ kdCalls = <<>>

KDParked ==
    /\ kdPhase = "args"
    /\ arch_rte = "missing"
    /\ run_teacher_on_eval = FALSE
    /\ studentTraining = FALSE
    /\ teacherTraining = FALSE
    /\ teacherRequiresGrad = [i \in 1..NumTeacherParams |-> FALSE]
    /\ kdCalls = <<>>

\* KDModule.__init__, lines 21-30, with _freeze_teacher, lines 32-34.
KDInit ==
    /\ UNCHANGED <<pipeVars, headVars>>
    /\ kdPhase = "args"
    /\ kdPhase' = "built"
    /\ run_teacher_on_eval' = get_param(arch_rte, FALSE)
    /\ teacherRequiresGrad' = [i \in 1..NumTeacherParams |-> FALSE]
    /\ teacherTraining' = IF run_teacher_on_eval' THEN FALSE ELSE teacherTraining
    /\ UNCHANGED <<arch_rte, studentTraining, kdCalls>>

\* KDModule.train(mode), lines 36-39.
KDTrain(mode) ==
    /\ UNCHANGED <<pipeVars, headVars>>
    /\ kdPhase = "built"
    /\ Len(kdCalls) < MaxCalls
    /\ studentTraining' = mode
    /\ teacherTraining' = train_teacher(mode)
    /\ kdCalls' = Append(kdCalls, IF mode THEN "train(True)" ELSE "train(False)")
    /\ UNCHANGED <<kdPhase, arch_rte, run_teacher_on_eval, teacherRequiresGrad>>

\* KDModule.eval(), lines 41-43.
KDEval ==
    /\ UNCHANGED <<pipeVars, headVars>>
    /\ kdPhase = "built"
    /\ Len(kdCalls) < MaxCalls
    /\ studentTraining' = FALSE
    /\ teacherTraining' = FALSE
    /\ kdCalls' = Append(kdCalls, "eval()")
    /\ UNCHANGED <<kdPhase, arch_rte, run_teacher_on_eval, teacherRequiresGrad>>

NextKD ==
    \/ KDInit
    \/ \E mode \in BOOLEAN : KDTrain(mode)
    \/ KDEval

----------------------------------------------------------------------------
\* NDFLHeads. Coordinates of anchor points are kept in halves (the grid cell
\* offset is 0.5) and every real number is a pair <<numerator, denominator>>
\* with a positive denominator.

None == <<>>
FpnStrides == <<8, 16, 32>>         \* fpn_strides, line 85
GridCellOffsetHalves == 1           \* grid_cell_offset = 0.5, in halves
LogitVals == {0, 1, 3}               \* values of a regression logit
BaseSize == <<32, 32>>

Sizes == {<<32 * r, 32 * c>> : r \in 1..MaxCells, c \in 1..MaxCells}

REq(p, q) == p[1] * q[2] = q[1] * p[2]
RLeq(p, q) == p[1] * q[2] <= q[1] * p[2]
RSub(p, q) == <<p[1] * q[2] - q[1] * p[2], p[2] * q[2]>>
RAdd(p, q) == <<p[1] * q[2] + q[1] * p[2], p[2] * q[2]>>
RScale(p, k) == <<p[1] * k, p[2]>>

RECURSIVE SumTo(_, _)
\* f[0] + ... + f[n]
SumTo(f, n) == IF n < 0 THEN 0 ELSE f[n] + SumTo(f, n - 1)

\* The shapes <<h, w>> of the feature maps of an image of the given size.
FeatShapes(size) ==
    [i \in 1..Len(FpnStrides) |-> <<size[1] \div FpnStrides[i], size[2] \div FpnStrides[i]>>]

\* Where the cells of the feature maps fall in a list that holds level 1
\* first, then level 2, ...: shapes[i] is the <<h, w>> of level i.
CellsOf(shapes, i) == shapes[i][1] * shapes[i][2]
CellsBefore(shapes, i) ==
    SumTo([j \in 0..Len(shapes) |-> IF j = 0 THEN 0 ELSE CellsOf(shapes, j)], i - 1)
NumAnchors(shapes) == CellsBefore(shapes, Len(shapes) + 1)
LevelOf(shapes, a) ==
    CHOOSE i \in 1..Len(shapes) : CellsBefore(shapes, i) < a /\ a <= CellsBefore(shapes, i + 1)
CellOf(shapes, a) == a - CellsBefore(shapes, LevelOf(shapes, a))

\* PPYOLOEHead._generate_anchors: for every level the points
\* (x + offset, y + offset) of its grid, row by row, and the level's stride
\* for each of them; the lists of the levels are concatenated.
generate_anchors_from_shapes(shapes) ==
    [anchor_points |->
        [a \in 1..NumAnchors(shapes) |->
            LET w == shapes[LevelOf(shapes, a)][2]
                p == CellOf(shapes, a)
            IN  <<2 * ((p - 1) % w) + GridCellOffsetHalves,
                  2 * ((p - 1) \div w) + GridCellOffsetHalves>>],
     stride_tensor |->
        [a \in 1..NumAnchors(shapes) |-> FpnStrides[LevelOf(shapes, a)]]]

\* The anchors of every image size and the <<level, cell>> of every anchor,
\* computed once.
AnchorTable == [size \in Sizes |-> generate_anchors_from_shapes(FeatShapes(size))]
PlaceTable ==
    [size \in Sizes |->
        [a \in 1..NumAnchors(FeatShapes(size)) |->
            <<LevelOf(FeatShapes(size), a), CellOf(FeatShapes(size), a)>>]]

\* self._generate_anchors(): h = int(eval_size[0] / stride), w likewise.
generate_anchors(size) == AnchorTable[size]

\* self._generate_anchors(feats): h and w are those of the feature maps.
generate_anchors_of_feats(size) == AnchorTable[size]

\* batch_distance2bbox(points, distance): x1y1 = points - lt, x2y2 = points + rb.
batch_distance2bbox(point, distance) ==
    <<RSub(<<point[1], 2>>, distance[1]), RSub(<<point[2], 2>>, distance[2]),
      RAdd(<<point[1], 2>>, distance[3]), RAdd(<<point[2], 2>>, distance[4])>>

\* The regression output of the heads: at every cell of level head.hot the
\* channel vector head.v (4 * (reg_max + 1) logits), zeros at the other
\* levels. The vectors are those with at most two channels that are not zero.
Channels == 0..(4 * (RegMax + 1) - 1)
HeadOutputs ==
    {[v |-> [c \in Channels |-> IF c = c1 THEN x1 ELSE IF c = c2 THEN x2 ELSE 0],
      hot |-> level] :
        c1 \in Channels, c2 \in Channels, x1 \in LogitVals, x2 \in LogitVals,
        level \in 1..Len(FpnStrides)}
ZeroHead == [v |-> [c \in Channels |-> 0], hot |-> 1]
reg_distri(head, level, channel, cell) == IF level = head.hot THEN head.v[channel] ELSE 0

\* The weight exp(x) of a logit in the softmax, up to the base: softmax_k is
\* Exp(x_k) / (Exp(x_0) + ... + Exp(x_reg_max)).
Exp(x) == 2 ^ x

\* A projection that counts the bins from one.
proj_conv_fromOne(k) == k + 1
\* proj = torch.linspace(0, reg_max, reg_max + 1), line 119
proj_conv(k) == k

\* reg_distri.reshape([-1, 4, reg_max + 1, h * w]), line 181: entry
\* [side, bin, cell] is channel side * (reg_max + 1) + bin.
reshaped(head, level, side, bin, cell) ==
    reg_distri(head, level, side * (RegMax + 1) + bin, cell)

\* Line 182: softmax over the bins, then the 1x1 convolution with proj.
reg_dist_reduced(head, level, cell) ==
    [side \in 1..4 |->
        LET softmax_weight == [k \in 0..RegMax |->
                                  Exp(reshaped(head, level, side - 1, k, cell))]
            projected == [k \in 0..RegMax |-> proj_conv(k) * softmax_weight[k]]
        IN  <<SumTo(projected, RegMax), SumTo(softmax_weight, RegMax)>>]

\* Line 192: the reduced distances of all levels, one row per anchor.
reg_dist_reduced_list(head, size) ==
    [a \in 1..Len(PlaceTable[size]) |->
        reg_dist_reduced(head, PlaceTable[size][a][1], PlaceTable[size][a][2])]

\* Line 202: the box of one anchor.
pred_bbox(point, distance, stride) ==
    [c \in 1..4 |-> RScale(batch_distance2bbox(point, distance)[c], stride)]

NoForward ==
    [status |-> "none", feats |-> None, head |-> ZeroHead, eval_size |-> None,
     generated |-> FALSE, anchor_points |-> <<>>, stride_tensor |-> <<>>,
     reduced |-> <<>>, pred_bboxes |-> <<>>]

\* NDFLHeads._init_weights, lines 147-151, called by __init__ once eval_size
\* is stored.
init_weights(size) ==
    IF size # None THEN generate_anchors(size)
    ELSE [anchor_points |-> <<>>, stride_tensor |-> <<>>]

\* After NDFLHeads.__init__, with the inputs of the first forward_eval call.
HeadsConstructed(sizes, inputs) ==
    /\ eval_size \in sizes
    /\ anchor_points = init_weights(eval_size).anchor_points
    /\ stride_tensor = init_weights(eval_size).stride_tensor
    /\ nextInput \in inputs
    /\ lastForward = NoForward

HeadsParked ==
    /\ eval_size = None
    /\ anchor_points = <<>>
    /\ stride_tensor = <<>>
    /\ nextInput = [size |-> BaseSize, head |-> ZeroHead]
    /\ lastForward = NoForward

\* A cache_anchors that keeps anchors it already has.
cache_anchors_keepsOld(input_size) ==
    /\ eval_size' = input_size
    /\ anchor_points' = IF anchor_points = <<>>
                        THEN generate_anchors(input_size).anchor_points ELSE anchor_points
    /\ stride_tensor' = IF stride_tensor = <<>>
                        THEN generate_anchors(input_size).stride_tensor ELSE stride_tensor
    /\ UNCHANGED <<lastForward, nextInput, pipeVars, kdVars>>
\* NDFLHeads.cache_anchors(input_size), lines 140-144.
cache_anchors(input_size) ==
    /\ eval_size' = input_size
    /\ anchor_points' = generate_anchors(input_size).anchor_points
    /\ stride_tensor' = generate_anchors(input_size).stride_tensor
    /\ UNCHANGED <<lastForward, nextInput, pipeVars, kdVars>>

\* cache_anchors(None): line 141 stores None, then _generate_anchors raises
\* on self.eval_size[0] and the stored anchors stay as they were.
cache_anchors_none ==
    /\ eval_size # None
    /\ eval_size' = None
    /\ UNCHANGED <<anchor_points, stride_tensor, lastForward, nextInput, pipeVars, kdVars>>

\* NDFLHeads.forward_eval(feats), lines 171-204, on the feature maps of an
\* image of the given size. batch_distance2bbox fails when the number of
\* stored anchors is not the number of cells of the feature maps.
forward_eval ==
    LET size == nextInput.size
        head == nextInput.head
        cached == eval_size # None
        points == IF cached THEN anchor_points
                  ELSE generate_anchors_of_feats(size).anchor_points
        strides == IF cached THEN stride_tensor
                   ELSE generate_anchors_of_feats(size).stride_tensor
    IN  /\ lastForward' =
              IF Len(points) # Len(PlaceTable[size])
              THEN [NoForward EXCEPT !.status = "raised", !.feats = size, !.head = head,
                                     !.eval_size = eval_size]
              ELSE [status |-> "ok", feats |-> size, head |-> head, eval_size |-> eval_size,
                    generated |-> ~cached,
                    anchor_points |-> points,
                    stride_tensor |-> strides,
                    reduced |-> reg_dist_reduced_list(head, size),
                    pred_bboxes |->
                       [a \in 1..Len(PlaceTable[size]) |->
                           pred_bbox(points[a],
                                     reg_dist_reduced(head, PlaceTable[size][a][1],
                                                      PlaceTable[size][a][2]),
                                     strides[a])]]
        /\ UNCHANGED <<eval_size, anchor_points, stride_tensor, nextInput, pipeVars, kdVars>>

----------------------------------------------------------------------------
\* Specifications.

NextPipeline ==
    \/ MoveModel
    \/ SetTraining
    \/ SetGrad
    \/ RunStart
    \/ PreprocessImage
    \/ EnterEvalMode
    \/ Forward
    \/ ForwardRaises
    \/ DecodeModelOutput
    \/ DecodeRaises
    \/ ExitEvalMode
    \/ PostprocessPrediction
    \/ Return
    \/ Reset

\* The inference pipeline.
Init == InitPipeline /\ KDParked /\ HeadsParked
Spec == Init /\ [][NextPipeline]_vars

\* The knowledge distillation module.
InitKDModule == InitKD /\ PipelineParked /\ HeadsParked
SpecKD == InitKDModule /\ [][NextKD]_vars

\* NDFLHeads, anchors: heads built with or without eval_size, then any
\* cache_anchors calls and forward_eval calls on the feature maps of an image.
InitAnchors ==
    /\ HeadsConstructed({None} \cup Sizes, [size : Sizes, head : {ZeroHead}])
    /\ PipelineParked
    /\ KDParked
NextAnchors ==
    \/ \E size \in Sizes : cache_anchors(size)
    \/ cache_anchors_none
    \/ forward_eval
SpecAnchors == InitAnchors /\ [][NextAnchors]_vars

\* NDFLHeads, decoding: forward_eval on the feature maps of a 32 x 32 image,
\* for every regression output of the heads.
InitDFL ==
    /\ HeadsConstructed({None, BaseSize}, [size : {BaseSize}, head : HeadOutputs])
    /\ PipelineParked
    /\ KDParked
NextDFL == forward_eval
SpecDFL == InitDFL /\ [][NextDFL]_vars

----------------------------------------------------------------------------
\* Claims about the pipeline (specification Spec).

StageRank(e) ==
    CASE e = "load" -> 1
      [] e = "preprocess" -> 2
      [] e = "forward" -> 3
      [] e = "decode" -> 4
      [] e = "postprocess" -> 5

\* C1: _run goes through load, preprocess, predict, postprocess in this
\* order: every loaded image is preprocessed before the model is called, the
\* model is called once, on the batch of all preprocessed images, and nothing
\* is postprocessed before the model call and _decode_model_output returned.
C1_StagesInOrder ==
    /\ \A i, j \in 1..Len(log) : i < j => StageRank(log[i]) <= StageRank(log[j])
    /\ log # <<>> => log[1] = "load"
    /\ Cardinality({i \in 1..Len(log) : log[i] = "forward"}) <= 1
    /\ fwd.called =>
          /\ Cardinality({i \in 1..Len(log) : log[i] = "preprocess"}) = Len(entry.loaded)
          /\ fwd.batch = [i \in 1..Len(entry.loaded) |->
                             preprocess_image(entry.loaded[i]).preprocessed_image]
    /\ predictions # <<>> =>
          /\ \E i \in 1..Len(log) : log[i] = "forward"
          /\ \E i \in 1..Len(log) : log[i] = "decode"
          /\ pc \in {"postprocess", "returned"}

C1_Witness ==
    /\ pc = "returned"
    /\ Len(entry.loaded) = 2
    /\ Len(predictions) = 2
    /\ log = <<"load", "preprocess", "preprocess", "forward", "decode",
               "postprocess", "postprocess">>

\* C2: inside the eval_mode block (model forward, _decode_model_output) the
\* model is in eval mode and gradients are off; when the block ends normally
\* the training flag and the grad mode are what they were on entry (a model
\* that was training is training again, gradients that were enabled are
\* enabled again), and so they are when _run returns.
C2_EvalModeUndone ==
    /\ pc \in {"forward", "decode", "exit_eval"} => ~training /\ ~gradEnabled
    /\ fwd.called => ~fwd.training /\ ~fwd.grad
    /\ pc \in {"postprocess", "returned"} =>
          /\ training = entry.training
          /\ gradEnabled = entry.grad
          /\ entry.grad => gradEnabled

C2_Witness ==
    /\ pc = "returned"
    /\ fwd.called
    /\ entry.training
    /\ training
    /\ entry.grad
    /\ gradEnabled

\* C3: at the model forward call the model and the input batch are both on
\* self.device, also when the model was on another device when _run was
\* called.
C3_ModelOnDevice ==
    /\ fwd.called => fwd.modelDevice = device /\ fwd.inputDevice = device
    /\ pc \notin {"idle"} => modelDevice = device

C3_Witness ==
    /\ fwd.called
    /\ entry.modelDevice # device
    /\ fwd.modelDevice = device

\* C6: _decode_model_output returns one entry per entry of the callback's
\* output, in the same order and without None: a None entry becomes an empty
\* (0, 6) prediction, any other entry is passed through.
C6_DecodeReplacesNone ==
    /\ Len(torch_predictions) = Len(callbackOut)
    /\ \A i \in 1..Len(callbackOut) :
          /\ torch_predictions[i] # NoneValue
          /\ callbackOut[i] = NoneValue => torch_predictions[i] = Tensor(0, 6)
          /\ callbackOut[i] # NoneValue => torch_predictions[i] = callbackOut[i]

C6_Witness ==
    /\ pc = "exit_eval"
    /\ Len(callbackOut) = 3
    /\ callbackOut[1] = NoneValue
    /\ callbackOut[2] = Tensor(2, 6)
    /\ callbackOut[3] = NoneValue
    /\ torch_predictions = <<Tensor(0, 6), Tensor(2, 6), Tensor(0, 6)>>

\* C8: when the body of the eval_mode block raises, the training flag and
\* the grad mode are what they were on entry.
C8_UndoneWhenBodyRaises ==
    pc = "raised" => training = entry.training /\ gradEnabled = entry.grad

\* C9 as stated: _run returns one prediction per loaded image, prediction i
\* postprocessed with the metadata of image i, and the loaded images
\* unmodified, whatever list _decode_model_output returned.
C9_OnePredictionPerImage ==
    pc = "returned" =>
        /\ images = entry.loaded
        /\ Len(predictions) = Len(entry.loaded)
        /\ \A i \in 1..Len(predictions) :
              predictions[i] =
                 postprocess_predictions(torch_predictions[i],
                                         preprocess_image(entry.loaded[i]).processing_metadata)

\* C9 amended: _run returns the loaded images unmodified and, in order, one
\* prediction for each of the first min(n, m) images, n the number of
\* images and m the length of the list _decode_model_output returned;
\* prediction i is entry i of that list postprocessed with the metadata of
\* image i. There is one prediction per image when m >= n.
C9_PredictionsZipped ==
    pc = "returned" =>
        /\ images = entry.loaded
        /\ Len(predictions) = Min(Len(entry.loaded), Len(torch_predictions))
        /\ Len(torch_predictions) >= Len(entry.loaded) =>
              Len(predictions) = Len(entry.loaded)
        /\ \A i \in 1..Len(predictions) :
              predictions[i] =
                 postprocess_predictions(torch_predictions[i],
                                         preprocess_image(entry.loaded[i]).processing_metadata)

C9_Witness ==
    /\ pc = "returned"
    /\ entry.loaded = <<"a", "b">>
    /\ torch_predictions = <<Tensor(1, 6)>>
    /\ Len(predictions) = 1

----------------------------------------------------------------------------
\* Claim about KDModule (specification SpecKD).

\* C4: in a KDModule built with run_teacher_on_eval = True the teacher is in
\* eval mode after construction and after any train(True), train(False) and
\* eval() calls, and the student is in the mode the last call asked for.
C4_TeacherStaysInEval ==
    (kdPhase = "built" /\ run_teacher_on_eval) =>
        /\ ~teacherTraining
        /\ kdCalls # <<>> => (studentTraining <=> kdCalls[Len(kdCalls)] = "train(True)")

C4_Witness ==
    /\ kdPhase = "built"
    /\ run_teacher_on_eval
    /\ kdCalls = <<"train(True)", "eval()", "train(True)">>
    /\ studentTraining
    /\ ~teacherTraining

----------------------------------------------------------------------------
\* Claims about NDFLHeads (specifications SpecAnchors and SpecDFL).

\* C5: while eval_size is set, the stored anchor_points and stride_tensor
\* are the anchors of eval_size, and forward_eval decodes with the stored
\* ones without generating any; while eval_size is not set, forward_eval
\* generates the anchors of the feature maps it is given.
C5_AnchorsCached ==
    /\ eval_size # None =>
          /\ anchor_points = generate_anchors(eval_size).anchor_points
          /\ stride_tensor = generate_anchors(eval_size).stride_tensor
    /\ lastForward.status = "ok" =>
          IF lastForward.eval_size # None
          THEN /\ ~lastForward.generated
               /\ lastForward.anchor_points = generate_anchors(lastForward.eval_size).anchor_points
               /\ lastForward.stride_tensor = generate_anchors(lastForward.eval_size).stride_tensor
          ELSE /\ lastForward.generated
               /\ lastForward.anchor_points =
                     generate_anchors_of_feats(lastForward.feats).anchor_points
               /\ lastForward.stride_tensor =
                     generate_anchors_of_feats(lastForward.feats).stride_tensor

C5_Witness ==
    /\ lastForward.status = "ok"
    /\ lastForward.eval_size = <<32, 64>>
    /\ lastForward.feats = <<64, 32>>
    /\ ~lastForward.generated
    /\ eval_size = <<64, 64>>
    /\ Len(anchor_points) = 84

\* C7: for every anchor and box side the reduced distance is the sum over
\* the bins k = 0..reg_max of k * softmax_k of that side's logits, which lies
\* in [0, reg_max], and the box is batch_distance2bbox(anchor point, the four
\* distances) times the stride of the anchor's level.
C7_DFLDecoding ==
    lastForward.status = "ok" =>
        LET shapes == FeatShapes(lastForward.feats)
            head == lastForward.head
        IN  \A a \in 1..NumAnchors(shapes) :
               LET level == LevelOf(shapes, a)
                   logit(side, k) == IF level = head.hot
                                     THEN head.v[(side - 1) * (RegMax + 1) + k] ELSE 0
                   expectation ==
                       [side \in 1..4 |->
                           <<SumTo([k \in 0..RegMax |-> k * Exp(logit(side, k))], RegMax),
                             SumTo([k \in 0..RegMax |-> Exp(logit(side, k))], RegMax)>>]
                   dist == lastForward.reduced[a]
                   box == lastForward.pred_bboxes[a]
                   expected == batch_distance2bbox(lastForward.anchor_points[a], expectation)
               IN  /\ lastForward.stride_tensor[a] = FpnStrides[level]
                   /\ \A side \in 1..4 :
                        /\ dist[side][2] > 0
                        /\ REq(dist[side], expectation[side])
                        /\ RLeq(<<0, 1>>, dist[side])
                        /\ RLeq(dist[side], <<RegMax, 1>>)
                   /\ \A c \in 1..4 :
                        /\ box[c][2] > 0
                        /\ REq(box[c], RScale(expected[c], FpnStrides[level]))

C7_Witness ==
    /\ lastForward.status = "ok"
    /\ lastForward.head.hot = 2
    /\ lastForward.head.v[RegMax] = 3
    /\ lastForward.head.v[RegMax + 1] = 1
    /\ ~REq(lastForward.reduced[17][1], lastForward.reduced[17][2])
    /\ REq(lastForward.reduced[1][1], <<RegMax, 2>>)

====
